---- MODULE Spec2Model ----
(***************************************************************************)
(* fractal-term-rs: the App of src/fract/app.rs (view list, crossfade      *)
(* animator, scratch matrix, frame operations and the command handler) and *)
(* the escape-time evaluator of src/fract/fractalcalc.rs.                  *)
(*                                                                         *)
(* Numbers.  An f64 is a fixed-point integer with FIX units per 1.0; a     *)
(* product or quotient is rounded down to a unit where f64 rounds to 53    *)
(* bits.  Angles are whole degrees.  The crossfade rate 1.0/20.0 is 5      *)
(* units, and twenty additions reach 1.0 in the model exactly where twenty *)
(* f64 additions of 0.05 reach 1.0000000000000002.                         *)
(*                                                                         *)
(* Matrices.  A matrix keeps its exact shape and the contents of a sample  *)
(* of its cells: the top-left MaxCols x MaxRows window and the cell a      *)
(* quarter of the way in.  Every operation on a matrix is cell-wise, so what holds of the   *)
(* sampled cells is what the operation does to each cell.                  *)
(*                                                                         *)
(* Presentation state of App (text_buffer, count, feedback_string,         *)
(* feedback_countdown, has_shown_help) belongs to the rendering            *)
(* collaborator and is not part of the state below.                        *)
(***************************************************************************)
EXTENDS Integers, Sequences, FiniteSets, TLC

VARIABLES
    views,                  \* App.views.vec: the sequence of View records
    index,                  \* App.views.index, 0-based as in the code
    view_width,             \* App.view_width
    view_height,            \* App.view_height
    interview_animator,     \* App.interview_animator: the crossfade Animator<f64>
    interview_matrix,       \* App.interview_matrix: the crossfade scratch matrix
    interview_last_index,   \* App.interview_last_index
    help_anim,              \* App.help_anim
    hist,                   \* history: views.index before each of the last two switches
    updates_since_switch,   \* history: update() calls since the last switch (or since new)
    calc,                   \* evaluator harness: one get_value input and its results
    geom,                   \* evaluator harness: one viewport and grid, and what is written
    input,                  \* the command slot shared with the input thread, and both threads
    aborted                 \* the process has panicked

vars == <<views, index, view_width, view_height, interview_animator,
          interview_matrix, interview_last_index, help_anim, hist,
          updates_since_switch, calc, geom, input, aborted>>

appVars == <<views, index, view_width, view_height, interview_animator,
             interview_matrix, interview_last_index, help_anim, hist,
             updates_since_switch>>

(***************************************************************************)
(* Bounds of the exploration.                                              *)
(***************************************************************************)
MaxCols == 1
MaxRows == 1
MaxPos == 100
MaxUpdates == 21
MaxViews == 3
MaxIter == 4
MaxCoord == 3
MaxGrid == 3
MaxZoomVelocity == 100
MaxWidth == 800
MaxFrames == 1
MaxAngle == 180
MaxEvents == 3

(***************************************************************************)
(* Fixed-point reals and 2-vectors (leelib::vector2::Vector2f).            *)
(***************************************************************************)
FIX == 100

Mul(a, b) == (a * b) \div FIX

Div(a, b) == (a * FIX) \div b

Abs(a) == IF a < 0 THEN -a ELSE a

Min(a, b) == IF a < b THEN a ELSE b

VAdd(u, v) == <<u[1] + v[1], u[2] + v[2]>>

VScale(v, s) == <<Mul(v[1], s), Mul(v[2], s)>>

\* sin and cos of an angle in whole degrees, in FIX units: exact at the quarter
\* turns, and between them the rational approximation 4x(180 - x) / (40500 - x(180 - x))
\* of the sine of x degrees, 0 <= x <= 180
HalfWaveSine(x) == (4 * x * (180 - x) * FIX) \div (40500 - x * (180 - x))

Sin(deg) == IF deg % 360 <= 180 THEN HalfWaveSine(deg % 360)
            ELSE -HalfWaveSine((deg % 360) - 180)

Cos(deg) == Sin(deg + 90)

Rotate(v, deg) ==
    <<Mul(v[1], Cos(deg)) - Mul(v[2], Sin(deg)),
      Mul(v[1], Sin(deg)) + Mul(v[2], Cos(deg))>>

(***************************************************************************)
(* FractalCalc: the escape-time evaluator (src/fract/fractalcalc.rs).      *)
(* A complex number is its two fixed-point parts.                          *)
(***************************************************************************)
DEFAULT_MANDELBROT_WIDTH == 400

DEFAULT_JULIA_WIDTH == 400

MAX_VAL == 500

\* num::Complex: z * z + c
SquareAdd(zr, zi, cr, ci) ==
    <<Mul(zr, zr) - Mul(zi, zi) + cr, Mul(zr, zi) + Mul(zi, zr) + ci>>

\* z.norm_sqr().sqrt() < 2.0
NormBelowTwo(zr, zi) == zr * zr + zi * zi < 4 * FIX * FIX

\* z_abs > 2.0
NormAboveTwo(zr, zi) == zr * zr + zi * zi > 4 * FIX * FIX

\* Each loop below runs its body at most max_val + 1 times.  MandelbrotRun and
\* JuliaRun apply the body n times, stopping once the loop has exited, in a
\* recursion of depth log n.
\* mutant of MandelbrotBody: the cap test is val <= max_val
MandelbrotBody_OneMore(s, max_val) ==
    IF NormBelowTwo(s.z[1], s.z[2]) /\ s.val <= max_val
    THEN [s EXCEPT !.z = SquareAdd(s.z[1], s.z[2], s.c[1], s.c[2]), !.val = s.val + 1]
    ELSE [s EXCEPT !.exited = TRUE]

\* while z.norm_sqr().sqrt() < 2.0 && val < max_val { z = z * z + c; val += 1; }
MandelbrotBody(s, max_val) ==
    IF NormBelowTwo(s.z[1], s.z[2]) /\ s.val < max_val
    THEN [s EXCEPT !.z = SquareAdd(s.z[1], s.z[2], s.c[1], s.c[2]), !.val = s.val + 1]
    ELSE [s EXCEPT !.exited = TRUE]

RECURSIVE MandelbrotRun(_, _, _)
MandelbrotRun(s, n, max_val) ==
    IF n = 0 \/ s.exited THEN s
    ELSE IF n = 1 THEN MandelbrotBody(s, max_val)
    ELSE MandelbrotRun(MandelbrotRun(s, n \div 2, max_val), n - n \div 2, max_val)

get_mandelbrot_value(x, y, max_val) ==
    MandelbrotRun([z |-> <<0, 0>>, c |-> <<x, y>>, val |-> 0, exited |-> FALSE],
                  max_val + 1, max_val).val

\* mutant of JuliaBody: the escape returns val + 1
JuliaBody_CountsEscape(s, max_val) ==
    IF s.val >= max_val THEN [s EXCEPT !.exited = TRUE, !.val = max_val]
    ELSE IF NormAboveTwo(s.z[1], s.z[2]) THEN [s EXCEPT !.exited = TRUE, !.val = s.val + 1]
    ELSE [s EXCEPT !.z = SquareAdd(s.z[1], s.z[2], s.c[1], s.c[2]), !.val = s.val + 1]

\* mutant of JuliaBody: the loop has no upper end
JuliaBody_NoCap(s, max_val) ==
    IF NormAboveTwo(s.z[1], s.z[2]) THEN [s EXCEPT !.exited = TRUE]
    ELSE [s EXCEPT !.z = SquareAdd(s.z[1], s.z[2], s.c[1], s.c[2]), !.val = s.val + 1]

\* for val in 0..max_val { if z_abs > 2.0 { return val; } z = z * z + c; } max_val
JuliaBody(s, max_val) ==
    IF s.val >= max_val THEN [s EXCEPT !.exited = TRUE, !.val = max_val]
    ELSE IF NormAboveTwo(s.z[1], s.z[2]) THEN [s EXCEPT !.exited = TRUE]
    ELSE [s EXCEPT !.z = SquareAdd(s.z[1], s.z[2], s.c[1], s.c[2]), !.val = s.val + 1]

RECURSIVE JuliaRun(_, _, _)
JuliaRun(s, n, max_val) ==
    IF n = 0 \/ s.exited THEN s
    ELSE IF n = 1 THEN JuliaBody(s, max_val)
    ELSE JuliaRun(JuliaRun(s, n \div 2, max_val), n - n \div 2, max_val)

get_julia_value(cr, ci, x, y, max_val) ==
    JuliaRun([z |-> <<x, y>>, c |-> <<cr, ci>>, val |-> 0, exited |-> FALSE],
             max_val + 1, max_val).val

\* FractalSpecs: fractal_type is "Mandelbrot" or "Julia" with its seed c
new_mandelbrot_with_defaults(element_ar) ==
    [fractal_type |-> "Mandelbrot", c |-> <<0, 0>>, max_val |-> MAX_VAL,
     default_width |-> DEFAULT_MANDELBROT_WIDTH, default_center |-> <<0, 0>>,
     element_ar |-> element_ar]

new_julia(c, element_ar) ==
    [fractal_type |-> "Julia", c |-> c, max_val |-> MAX_VAL,
     default_width |-> DEFAULT_JULIA_WIDTH, default_center |-> <<0, 0>>,
     element_ar |-> element_ar]

get_value(specs, x, y) ==
    IF specs.fractal_type = "Mandelbrot"
    THEN get_mandelbrot_value(x, y, specs.max_val)
    ELSE get_julia_value(specs.c[1], specs.c[2], x, y, specs.max_val)

\* mutant of get_height: the aspect ratio is not inverted
get_height_NotInverted(specs, matrix_width, full_matrix_height, width) ==
    LET matrix_aspect_ratio == Div(matrix_width * FIX, full_matrix_height * FIX)
    IN  Mul(Mul(width, matrix_aspect_ratio), Div(FIX, specs.element_ar))

get_height(specs, matrix_width, full_matrix_height, width) ==
    LET matrix_aspect_ratio == Div(matrix_width * FIX, full_matrix_height * FIX)
    IN  Mul(Mul(width, Div(FIX, matrix_aspect_ratio)), Div(FIX, specs.element_ar))

(***************************************************************************)
(* leelib::matrix::Matrix: the shape and the sampled cells.                *)
(***************************************************************************)
SampleCells(w, h) ==
    ((0 .. Min(w, MaxCols) - 1) \X (0 .. Min(h, MaxRows) - 1))
        \cup (IF w > 0 /\ h > 0 THEN {<<w \div 4, h \div 4>>} ELSE {})

NewMatrix(w, h) ==
    [width |-> w, height |-> h, cells |-> [p \in SampleCells(w, h) |-> 0]]

\* mutant of SectionPoint: the row is counted from the section's own first row
SectionPoint_OwnRows(specs, center, width, rotation, section_width, full_matrix_offset, full_matrix_height, index_x, index_y) ==
    LET mandelbrot_height == get_height(specs, section_width, full_matrix_height, width)
        element_w == Div(width, section_width * FIX)
        element_h == Div(mandelbrot_height, full_matrix_height * FIX)
        slope_x == Rotate(<<element_w, 0>>, rotation)
        slope_y == Rotate(<<0, element_h>>, rotation)
        half_matrix_w == Div(section_width * FIX, 2 * FIX)
        half_matrix_h == Div(full_matrix_height * FIX, 2 * FIX)
        left == VAdd(center, VScale(slope_x, -half_matrix_w))
        cursor == VAdd(left, VScale(slope_y, index_y * FIX - half_matrix_h))
    IN  <<cursor[1] + index_x * slope_x[1], cursor[2] + index_x * slope_x[2]>>

\* the mathematical point write_matrix_section evaluates for cell (index_x, index_y)
\* of a section that starts at row full_matrix_offset
SectionPoint(specs, center, width, rotation, section_width, full_matrix_offset, full_matrix_height, index_x, index_y) ==
    LET mandelbrot_height == get_height(specs, section_width, full_matrix_height, width)
        element_w == Div(width, section_width * FIX)
        element_h == Div(mandelbrot_height, full_matrix_height * FIX)
        slope_x == Rotate(<<element_w, 0>>, rotation)
        slope_y == Rotate(<<0, element_h>>, rotation)
        half_matrix_w == Div(section_width * FIX, 2 * FIX)
        half_matrix_h == Div(full_matrix_height * FIX, 2 * FIX)
        left == VAdd(center, VScale(slope_x, -half_matrix_w))
        cursor == VAdd(left, VScale(slope_y,
                        (full_matrix_offset + index_y) * FIX - half_matrix_h))
    IN  <<cursor[1] + index_x * slope_x[1], cursor[2] + index_x * slope_x[2]>>

write_matrix_section(specs, center, width, rotation, section, full_matrix_offset, full_matrix_height) ==
    [section EXCEPT !.cells =
        [p \in DOMAIN section.cells |->
            LET pt == SectionPoint(specs, center, width, rotation, section.width,
                                   full_matrix_offset, full_matrix_height, p[1], p[2])
            IN  get_value(specs, pt[1], pt[2])]]

write_matrix(specs, center, width, rotation, matrix) ==
    write_matrix_section(specs, center, width, rotation, matrix, 0, matrix.height)

\* Matrix::interpolate: cell by cell, a + (b - a) * t
Lerp(t, a, b) == a + Mul(b - a, t)

Interpolate(t, a, b, out) ==
    [out EXCEPT !.cells = [p \in DOMAIN out.cells |-> Lerp(t, a.cells[p], b.cells[p])]]

(***************************************************************************)
(* leelib::animator::Animator and Anim.  A scalar animator holds a         *)
(* fixed-point value, a vector animator a pair.  epsilon: None is          *)
(* NoEpsilon.                                                              *)
(***************************************************************************)
NoEpsilon == -1

AnimNone == [type |-> "None"]

AnimVelocity(velocity, friction, epsilon) ==
    [type |-> "Velocity", velocity |-> velocity, friction |-> friction,
     epsilon |-> epsilon]

AnimVelocityWithRotation(velocity, rotation, friction) ==
    [type |-> "VelocityWithRotation", velocity |-> velocity, rotation |-> rotation,
     friction |-> friction]

AnimScaleVelocity(scale_velocity, friction, epsilon) ==
    [type |-> "ScaleVelocity", scale_velocity |-> scale_velocity,
     friction |-> friction, epsilon |-> epsilon]

AnimTarget(target, coefficient, epsilon) ==
    [type |-> "Target", target |-> target, coefficient |-> coefficient,
     epsilon |-> epsilon]

\* Anim::Target of an Animator<Vector2f>
AnimVectorTarget(target, coefficient, epsilon) ==
    [type |-> "Target", target |-> target, coefficient |-> coefficient,
     epsilon |-> epsilon, vector |-> TRUE]

\* Animator::new(value, anim)
NewAnimator(value, anim) == [value |-> value, anim |-> anim]

\* Animator::set_anim: replaces the mode, keeps the value
set_anim(a, anim) == [a EXCEPT !.anim = anim]

Converged(rate, epsilon) == epsilon # NoEpsilon /\ Abs(rate) < epsilon

\* Animator::update: one discrete step of the active mode
\* mutant of EaseStep: the step leads away from the target
EaseStep_Away(distance, coefficient) == -distance

\* distance * coefficient of a Target animator, rounded away from zero: above its
\* epsilon an f64 step is never 0, and with a coefficient of at most 1 it never
\* passes the target
EaseStep(distance, coefficient) ==
    IF distance >= 0 THEN (distance * coefficient + FIX - 1) \div FIX
    ELSE -((-distance * coefficient + FIX - 1) \div FIX)

AnimatorUpdate(a) ==
    CASE a.anim.type = "None" -> a
      [] a.anim.type = "Velocity" ->
            LET v == Mul(a.anim.velocity, a.anim.friction)
            IN  [value |-> a.value + a.anim.velocity,
                 anim |-> IF Converged(v, a.anim.epsilon) THEN AnimNone
                          ELSE [a.anim EXCEPT !.velocity = v]]
      [] a.anim.type = "VelocityWithRotation" ->
            LET r == Rotate(a.anim.velocity, a.anim.rotation)
            IN  [value |-> VAdd(a.value, r),
                 anim |-> [a.anim EXCEPT !.velocity = VScale(r, a.anim.friction)]]
      [] a.anim.type = "ScaleVelocity" ->
            LET v == Mul(a.anim.scale_velocity, a.anim.friction)
            IN  [value |-> Mul(a.value, FIX + a.anim.scale_velocity),
                 anim |-> IF Converged(v, a.anim.epsilon) THEN AnimNone
                          ELSE [a.anim EXCEPT !.scale_velocity = v]]
      [] a.anim.type = "Target" /\ "vector" \in DOMAIN a.anim ->
            LET x == VAdd(a.value, VScale(<<a.anim.target[1] - a.value[1],
                                            a.anim.target[2] - a.value[2]>>,
                                          a.anim.coefficient))
                dx == a.anim.target[1] - x[1]
                dy == a.anim.target[2] - x[2]
            IN  IF /\ a.anim.epsilon # NoEpsilon
                   /\ dx * dx + dy * dy < a.anim.epsilon * a.anim.epsilon
                THEN [value |-> a.anim.target, anim |-> AnimNone]
                ELSE [value |-> x, anim |-> a.anim]
      [] a.anim.type = "Target" /\ "vector" \notin DOMAIN a.anim ->
            LET x == a.value + EaseStep(a.anim.target - a.value, a.anim.coefficient)
            IN  IF Converged(a.anim.target - x, a.anim.epsilon)
                THEN [value |-> a.anim.target, anim |-> AnimNone]
                ELSE [value |-> x, anim |-> a.anim]

(***************************************************************************)
(* fract::constants and fract::view (MandelView, JuliaView, Views).        *)
(***************************************************************************)
CHARACTER_ASPECT_RATIO == 40

VELOCITY_RATIO_INCREMENT == 25

FRICTION == 50

ZOOM_INCREMENT == 25

ROTATIONAL_VELOCITY_INCREMENT == 90

TARGET_COEF == 50

\* the coordinate list of a view: the presets of Command::Coord(index)
CoordPresets == <<<<FIX \div 2, 0>>, <<-FIX \div 2, FIX \div 4>>>>

\* julia_coordlist.get(1)
DefaultJuliaCoord == <<28, 1>>

\* MandelView::new / JuliaView::new(view_width, view_height, specs)
NewView(w, h, specs) ==
    [specs |-> specs,
     position_animator |-> NewAnimator(specs.default_center, AnimNone),
     width_animator |-> NewAnimator(specs.default_width, AnimNone),
     rotation_animator |-> NewAnimator(0, AnimNone),
     coord_anim |-> FALSE,
     matrix |-> NewMatrix(w, h)]

\* View::update: one step of each of the three animators
ViewUpdate(v) ==
    [v EXCEPT !.position_animator = AnimatorUpdate(@),
              !.width_animator = AnimatorUpdate(@),
              !.rotation_animator = AnimatorUpdate(@)]

\* View::calculate: the evaluator on the animators' current values
ViewCalculate(v) ==
    [v EXCEPT !.matrix = write_matrix(v.specs, v.position_animator.value,
                                      v.width_animator.value,
                                      v.rotation_animator.value, @)]

\* View::set_matrix_size: the matrix is constructed anew
set_matrix_size(v, w, h) == [v EXCEPT !.matrix = NewMatrix(w, h)]

\* View::stop_coord_anim
stop_coord_anim(v) == [v EXCEPT !.coord_anim = FALSE]

\* View::start_coord_anim(index): the jump to a preset; nothing is started when the
\* view is already on its way to that preset
CoordAnimStarts(v, i) ==
    ~(/\ v.coord_anim
      /\ v.position_animator.anim.type = "Target"
      /\ v.position_animator.anim.target = CoordPresets[i + 1])

start_coord_anim(v, i) ==
    IF CoordAnimStarts(v, i)
    THEN [v EXCEPT !.coord_anim = TRUE,
                   !.position_animator =
                        set_anim(@, AnimVectorTarget(CoordPresets[i + 1], TARGET_COEF,
                                                 NoEpsilon))]
    ELSE v

\* Views::get: the view at views.index (the code's index is 0-based)
Current == views[index + 1]

NumViews == Len(views)

(***************************************************************************)
(* App (src/fract/app.rs).                                                 *)
(***************************************************************************)
INITIAL_VIEW_WIDTH == 80

INITIAL_VIEW_HEIGHT == 24

\* the evaluator harness at rest
CalcIdle ==
    [phase |-> "idle", x |-> 0, y |-> 0, cr |-> 0, ci |-> 0, max_val |-> 0,
     mandelbrot |-> -1, mandelbrot_at_c |-> -1, julia |-> -1]

\* the viewport harness at rest
GeomIdle ==
    [phase |-> "idle", matrix_width |-> 1, matrix_height |-> 1, width |-> FIX,
     element_ar |-> FIX, center |-> <<0, 0>>, rotation |-> 0,
     fractal_type |-> "Mandelbrot", heights |-> <<1>>, height |-> -1,
     whole |-> <<>>, sections |-> <<>>]

\* before the input thread is launched: the slot holds Command::None
InputIdle ==
    [thread |-> "unlaunched", event |-> "none", command |-> <<"None">>,
     unread |-> FALSE, lost |-> <<>>, delivered |-> <<>>, polled |-> 0]

\* App::new
Init ==
    /\ views = <<NewView(INITIAL_VIEW_WIDTH, INITIAL_VIEW_HEIGHT,
                         new_mandelbrot_with_defaults(CHARACTER_ASPECT_RATIO)),
                 NewView(INITIAL_VIEW_WIDTH, INITIAL_VIEW_HEIGHT,
                         new_julia(DefaultJuliaCoord, CHARACTER_ASPECT_RATIO))>>
    /\ index = 0
    /\ view_width = INITIAL_VIEW_WIDTH
    /\ view_height = INITIAL_VIEW_HEIGHT
    /\ interview_animator = NewAnimator(FIX, AnimNone)
    /\ interview_matrix = NewMatrix(INITIAL_VIEW_WIDTH, INITIAL_VIEW_HEIGHT)
    /\ interview_last_index = 0
    /\ help_anim = NewAnimator(FIX, AnimNone)
    /\ hist = <<>>
    /\ updates_since_switch = 0
    /\ calc = CalcIdle
    /\ geom = GeomIdle
    /\ input = InputIdle
    /\ aborted = FALSE

\* the exploration keeps every view's centre within MaxPos of the origin
InRange(p) == Abs(p[1]) <= MaxPos /\ Abs(p[2]) <= MaxPos

\* App::stop_view_anims, on the view it is applied to
stop_view_anims_KeepsTurning(v) ==
    stop_coord_anim([v EXCEPT !.position_animator = set_anim(@, AnimNone),
                              !.width_animator = set_anim(@, AnimNone)])

stop_view_anims(v) ==
    stop_coord_anim([v EXCEPT !.position_animator = set_anim(@, AnimNone),
                              !.width_animator = set_anim(@, AnimNone),
                              !.rotation_animator = set_anim(@, AnimNone)])

\* mutant of NextIndex: the wrap test is > where the code has >=
NextIndex_WrapsLate(i, len) == IF i + 1 > len THEN 0 ELSE i + 1

\* mutant of NextIndex: the index stays on the last view where the code wraps to 0
NextIndex_NoWrap(i, len) == IF i + 1 >= len THEN i ELSE i + 1

\* handle_command, ChangeFractalSet: views.index += 1, wrapping at vec.len()
NextIndex(i, len) == IF i + 1 >= len THEN 0 ELSE i + 1

\* mutant of CrossfadeRate: a ramp of 25 updates
CrossfadeRate_Slow == Div(FIX, 25 * FIX)

\* handle_command, ChangeFractalSet: velocity: 1.0 / 20.0
CrossfadeRate == Div(FIX, 20 * FIX)

\* mutant of SwitchedAnimator: the value is not reset to 0.0
SwitchedAnimator_KeepsValue(a) ==
    set_anim(a, AnimVelocity(CrossfadeRate, FIX, NoEpsilon))

\* handle_command, ChangeFractalSet: the crossfade animator after the switch
SwitchedAnimator(a) ==
    set_anim([a EXCEPT !.value = 0], AnimVelocity(CrossfadeRate, FIX, NoEpsilon))

\* handle_command(Command::ChangeFractalSet)
ChangeFractalSet ==
    /\ views' = [views EXCEPT ![index + 1] = stop_view_anims(stop_coord_anim(@))]
    /\ interview_last_index' = index
    /\ index' = NextIndex(index, Len(views))
    /\ interview_animator' = SwitchedAnimator(interview_animator)
    /\ hist' = IF hist = <<>> THEN <<index>> ELSE <<hist[Len(hist)], index>>
    /\ updates_since_switch' = 0
    /\ UNCHANGED <<view_width, view_height, interview_matrix, help_anim, calc, geom, input, aborted>>

\* handle_command: any command but Coord, RotationalVelocity, AutoExposure, Help and
\* Size turns the coord anim of a Mandelbrot view off
StopCoordIfMandelbrot(v) ==
    IF v.specs.fractal_type = "Mandelbrot" THEN stop_coord_anim(v) ELSE v

\* mutant of PannedAnimator: a pan replaces the mode whatever it was
PannedAnimator_Replaces(a, increment) ==
    set_anim(a, AnimVelocityWithRotation(increment, 0, FRICTION))

\* handle_command, PositionVelocity: the position animator after the command
PannedAnimator(a, increment) ==
    IF a.anim.type = "VelocityWithRotation"
    THEN [a EXCEPT !.anim.velocity = VAdd(a.anim.velocity, increment)]
    ELSE set_anim(a, AnimVelocityWithRotation(increment, 0, FRICTION))

\* the arrow keys of Command::from_rustbox_event the exploration presses
PanInputs == {<<FIX, 0>>}

\* handle_command(Command::PositionVelocity(xm, ym))
PositionVelocity(xm, ym) ==
    LET vel_increment == Mul(Current.width_animator.value, VELOCITY_RATIO_INCREMENT)
        increment == <<Mul(vel_increment, xm), Mul(vel_increment, ym)>>
        a == PannedAnimator(Current.position_animator, increment)
    IN  /\ InRange(VAdd(a.value, a.anim.velocity))
        /\ views' = [views EXCEPT ![index + 1] =
                        [StopCoordIfMandelbrot(@) EXCEPT !.position_animator = a]]
        /\ UNCHANGED <<index, view_width, view_height, interview_animator,
                       interview_matrix, interview_last_index, help_anim, hist,
                       updates_since_switch, calc, geom, input, aborted>>

\* handle_command, Zoom: the width animator after the command
ZoomedAnimator(a, multiplier) ==
    LET increment == Mul(ZOOM_INCREMENT, multiplier)
        current == IF a.anim.type = "ScaleVelocity" THEN a.anim.scale_velocity ELSE 0
    IN  set_anim(a, AnimScaleVelocity(current + increment, FRICTION, NoEpsilon))

\* the keys a, = and z, - of Command::from_rustbox_event
ZoomInputs == {-FIX, FIX}

\* handle_command(Command::Zoom(multiplier))
Zoom(multiplier) ==
    /\ views' = [views EXCEPT ![index + 1] =
                    [StopCoordIfMandelbrot(@) EXCEPT
                        !.width_animator = ZoomedAnimator(@, multiplier)]]
    /\ UNCHANGED <<index, view_width, view_height, interview_animator,
                   interview_matrix, interview_last_index, help_anim, hist,
                   updates_since_switch, calc, geom, input, aborted>>

\* the keys A, + and Z, _ of Command::from_rustbox_event
ZoomContinuousInputs == {-FIX \div 2, FIX \div 2}

\* handle_command(Command::ZoomContinuous(multiplier))
ZoomContinuous(multiplier) ==
    /\ views' = [views EXCEPT ![index + 1] =
                    [StopCoordIfMandelbrot(@) EXCEPT
                        !.width_animator =
                            set_anim(@, AnimScaleVelocity(Mul(ZOOM_INCREMENT, multiplier),
                                                          FIX, NoEpsilon))]]
    /\ UNCHANGED <<index, view_width, view_height, interview_animator,
                   interview_matrix, interview_last_index, help_anim, hist,
                   updates_since_switch, calc, geom, input, aborted>>

\* the mouse clicks of Command::from_rustbox_event the exploration makes
TweenInputs == {<<60, 12>>, <<40, 18>>}

\* handle_command, PositionTween: the point of the plane under the clicked cell
TweenTarget(v, char_col, char_row) ==
    LET screen_center_x == Div(view_width * FIX, 2 * FIX)
        screen_offset_ratio_x == Div(char_col * FIX - screen_center_x, screen_center_x)
        ar == Div(view_width * FIX, view_height * FIX)
        viewport_height == Mul(Mul(v.width_animator.value, Div(FIX, ar)),
                               Div(FIX, v.specs.element_ar))
        screen_center_y == Div(view_height * FIX, 2 * FIX)
        screen_offset_ratio_y == Div(char_row * FIX - screen_center_y, screen_center_y)
        vp_center == <<Div(v.width_animator.value, 2 * FIX), Div(viewport_height, 2 * FIX)>>
        vp_center_offset == Rotate(<<Mul(screen_offset_ratio_x, vp_center[1]),
                                     Mul(screen_offset_ratio_y, vp_center[2])>>,
                                   v.rotation_animator.value)
    IN  VAdd(v.position_animator.value, vp_center_offset)

\* handle_command(Command::PositionTween(char_col, char_row))
PositionTween(char_col, char_row) ==
    /\ views' = [views EXCEPT ![index + 1] =
                    [StopCoordIfMandelbrot(@) EXCEPT
                        !.position_animator =
                            set_anim(@, AnimVectorTarget(
                                            TweenTarget(Current, char_col, char_row),
                                            TARGET_COEF, NoEpsilon))]]
    /\ UNCHANGED <<index, view_width, view_height, interview_animator,
                   interview_matrix, interview_last_index, help_anim, hist,
                   updates_since_switch, calc, geom, input, aborted>>

\* handle_command, RotationalVelocity: the rotation animator after the command
TurnedAnimator(a, multiplier) ==
    LET increment == Mul(ROTATIONAL_VELOCITY_INCREMENT, multiplier)
    IN  IF a.anim.type = "Velocity"
        THEN [a EXCEPT !.anim.velocity = a.anim.velocity + increment]
        ELSE set_anim(a, AnimVelocity(increment, FRICTION, NoEpsilon))

\* the keys [ and ] of Command::from_rustbox_event
RotationInputs == {FIX, -FIX}

\* handle_command(Command::RotationalVelocity(multiplier)): the command leaves the
\* coord anim alone
RotationalVelocity(multiplier) ==
    /\ views' = [views EXCEPT ![index + 1].rotation_animator =
                    TurnedAnimator(@, multiplier)]
    /\ UNCHANGED <<index, view_width, view_height, interview_animator,
                   interview_matrix, interview_last_index, help_anim, hist,
                   updates_since_switch, calc, geom, input, aborted>>

\* the keys 1 and 2 of Command::from_rustbox_event
CoordInputs == {0, 1}

\* handle_command(Command::Coord(index))
Coord(i) ==
    /\ views' = [views EXCEPT ![index + 1] = start_coord_anim(@, i)]
    /\ UNCHANGED <<index, view_width, view_height, interview_animator,
                   interview_matrix, interview_last_index, help_anim, hist,
                   updates_since_switch, calc, geom, input, aborted>>

\* App::anim_in_help_dialog
anim_in_help_dialog == NewAnimator(help_anim.value, AnimTarget(0, 20, 1))

\* App::anim_out_help_dialog
anim_out_help_dialog == NewAnimator(help_anim.value, AnimTarget(FIX, 20, 1))

\* handle_command(Command::Help)
Help ==
    /\ help_anim' = IF help_anim.value > 0 THEN anim_in_help_dialog
                    ELSE anim_out_help_dialog
    /\ UNCHANGED <<views, index, view_width, view_height, interview_animator,
                   interview_matrix, interview_last_index, hist,
                   updates_since_switch, calc, geom, input, aborted>>

\* handle_command(Command::Stop)
Stop ==
    /\ views' = [views EXCEPT ![index + 1] = stop_view_anims(stop_coord_anim(@))]
    /\ UNCHANGED <<index, view_width, view_height, interview_animator,
                   interview_matrix, interview_last_index, help_anim, hist,
                   updates_since_switch, calc, geom, input, aborted>>

\* the terminal sizes the exploration resizes to
SizeInputs == {<<80, 24>>, <<40, 12>>}

\* mutant of ResizedViews: only the current view is resized
ResizedViews_CurrentOnly(w, h) ==
    [views EXCEPT ![index + 1] = set_matrix_size(@, w, h)]

\* App::set_size, the views it resizes: every one
ResizedViews(w, h) == [i \in DOMAIN views |-> set_matrix_size(views[i], w, h)]

\* App::set_size, reached by handle_command(Command::Size(w, h))
set_size(w, h) ==
    /\ view_width' = w
    /\ view_height' = h
    /\ views' = ResizedViews(w, h)
    /\ interview_matrix' = NewMatrix(w, h)
    /\ UNCHANGED <<index, interview_animator, interview_last_index, help_anim,
                   hist, updates_since_switch, calc, geom, input, aborted>>

\* mutant of MatrixNewAborts: a grid of any size is built
MatrixNewAborts_Never(w, h) == FALSE

\* leelib::matrix::Matrix::new, the sizes it treats as fatal: a zero-sized grid
MatrixNewAborts(w, h) == w = 0 \/ h = 0

\* the sizes a terminal reports, a collapsed terminal among them
ResizeInputs == SizeInputs \cup {<<0, 24>>, <<80, 0>>, <<0, 0>>}

\* handle_command(Command::Size(w, h)): set_size stores the size, then builds the
\* grids; the process ends at the first grid that cannot be built
Size(w, h) ==
    IF MatrixNewAborts(w, h)
    THEN /\ view_width' = w
         /\ view_height' = h
         /\ aborted' = TRUE
         /\ UNCHANGED <<views, index, interview_animator, interview_matrix,
                        interview_last_index, help_anim, hist,
                        updates_since_switch, calc, geom, input>>
    ELSE set_size(w, h)

\* mutant of TerminateCrossfade: the test is > 1.0 where the code has >= 1.0
TerminateCrossfade_Late(a) ==
    IF a.value > FIX THEN set_anim([a EXCEPT !.value = 0], AnimNone) ELSE a

\* App::update, the crossfade's end: at 1.0 or beyond it is reset to 0 and stopped
TerminateCrossfade(a) ==
    IF a.value >= FIX THEN set_anim([a EXCEPT !.value = 0], AnimNone) ELSE a

\* App::update, the views it advances: the current one
UpdatedViews == [views EXCEPT ![index + 1] = ViewUpdate(@)]

\* App::update
Update ==
    /\ \A i \in DOMAIN views : InRange(UpdatedViews[i].position_animator.value)
    /\ views' = UpdatedViews
    /\ interview_animator' = TerminateCrossfade(AnimatorUpdate(interview_animator))
    /\ help_anim' = AnimatorUpdate(help_anim)
    /\ updates_since_switch' = Min(updates_since_switch + 1, MaxUpdates)
    /\ UNCHANGED <<index, view_width, view_height, interview_matrix,
                   interview_last_index, hist, calc, geom, input, aborted>>

\* mutant of CalculatedViews: every view is recomputed
CalculatedViews_All == [i \in DOMAIN views |-> ViewCalculate(views[i])]

\* App::calculate, the views it recomputes: the current one
CalculatedViews == [views EXCEPT ![index + 1] = ViewCalculate(@)]

\* App::calculate
Calculate ==
    /\ views' = CalculatedViews
    /\ UNCHANGED <<index, view_width, view_height, interview_animator,
                   interview_matrix, interview_last_index, help_anim, hist,
                   updates_since_switch, calc, geom, input, aborted>>

\* App::draw: should_crossfade
should_crossfade == interview_animator.anim.type # "None"

\* mutant of CrossfadeSources: the two matrices change places
CrossfadeSources_Swapped == <<Current.matrix, views[interview_last_index + 1].matrix>>

\* App::draw: the two matrices it blends, from (blend 0) and to (blend 1)
CrossfadeSources == <<views[interview_last_index + 1].matrix, Current.matrix>>

\* App::draw: the matrix handed to asciifier().write_textbuffer
CompositeOutput ==
    IF should_crossfade
    THEN Interpolate(interview_animator.value, CrossfadeSources[1],
                     CrossfadeSources[2], interview_matrix)
    ELSE Current.matrix

\* App::draw
Draw ==
    /\ interview_matrix' = IF should_crossfade THEN CompositeOutput
                           ELSE interview_matrix
    /\ UNCHANGED <<views, index, view_width, view_height, interview_animator,
                   interview_last_index, help_anim, hist, updates_since_switch,
                   calc, geom, input, aborted>>

Next ==
    \/ ChangeFractalSet
    \/ \E m \in PanInputs : PositionVelocity(m[1], m[2])
    \/ Stop
    \/ \E s \in SizeInputs : set_size(s[1], s[2])
    \/ Update
    \/ Calculate
    \/ Draw

Spec == Init /\ [][Next]_vars

(***************************************************************************)
(* The switch and the frame clock alone, for a view list of any length     *)
(* and any starting index.                                                 *)
(***************************************************************************)
ViewList(n) ==
    [k \in 1 .. n |->
        NewView(INITIAL_VIEW_WIDTH, INITIAL_VIEW_HEIGHT,
                IF k % 2 = 1 THEN new_mandelbrot_with_defaults(CHARACTER_ASPECT_RATIO)
                ELSE new_julia(DefaultJuliaCoord, CHARACTER_ASPECT_RATIO))]

InitViews ==
    /\ views \in {ViewList(n) : n \in 1 .. MaxViews}
    /\ index \in 0 .. Len(views) - 1
    /\ view_width = INITIAL_VIEW_WIDTH
    /\ view_height = INITIAL_VIEW_HEIGHT
    /\ interview_animator = NewAnimator(FIX, AnimNone)
    /\ interview_matrix = NewMatrix(INITIAL_VIEW_WIDTH, INITIAL_VIEW_HEIGHT)
    /\ interview_last_index = 0
    /\ help_anim = NewAnimator(FIX, AnimNone)
    /\ hist = <<>>
    /\ updates_since_switch = 0
    /\ calc = CalcIdle
    /\ geom = GeomIdle
    /\ input = InputIdle
    /\ aborted = FALSE

NextViews ==
    \/ ChangeFractalSet
    \/ Update

SpecViews == InitViews /\ [][NextViews]_vars

(***************************************************************************)
(* The evaluator alone: get_value on one input, for both fractal types.    *)
(***************************************************************************)
Coords == {k * FIX : k \in -MaxCoord .. MaxCoord}

InitCalc ==
    /\ views = <<NewView(INITIAL_VIEW_WIDTH, INITIAL_VIEW_HEIGHT,
                         new_mandelbrot_with_defaults(CHARACTER_ASPECT_RATIO)),
                 NewView(INITIAL_VIEW_WIDTH, INITIAL_VIEW_HEIGHT,
                         new_julia(DefaultJuliaCoord, CHARACTER_ASPECT_RATIO))>>
    /\ index = 0
    /\ view_width = INITIAL_VIEW_WIDTH
    /\ view_height = INITIAL_VIEW_HEIGHT
    /\ interview_animator = NewAnimator(FIX, AnimNone)
    /\ interview_matrix = NewMatrix(INITIAL_VIEW_WIDTH, INITIAL_VIEW_HEIGHT)
    /\ interview_last_index = 0
    /\ help_anim = NewAnimator(FIX, AnimNone)
    /\ hist = <<>>
    /\ updates_since_switch = 0
    /\ calc \in [phase : {"input"}, x : Coords, y : Coords, cr : Coords, ci : Coords,
                 max_val : 0 .. MaxIter, mandelbrot : {-1}, mandelbrot_at_c : {-1},
                 julia : {-1}]
    /\ geom = GeomIdle
    /\ input = InputIdle
    /\ aborted = FALSE

\* get_value at (x, y) under Mandelbrot specs and under Julia(c) specs, and at c
\* under Mandelbrot specs, all with max_val as the cap
Evaluate ==
    /\ calc.phase = "input"
    /\ LET m == [new_mandelbrot_with_defaults(CHARACTER_ASPECT_RATIO)
                    EXCEPT !.max_val = calc.max_val]
           j == [new_julia(<<calc.cr, calc.ci>>, CHARACTER_ASPECT_RATIO)
                    EXCEPT !.max_val = calc.max_val]
       IN  calc' = [calc EXCEPT !.phase = "done",
                                !.mandelbrot = get_value(m, calc.x, calc.y),
                                !.mandelbrot_at_c = get_value(m, calc.cr, calc.ci),
                                !.julia = get_value(j, calc.x, calc.y)]
    /\ UNCHANGED <<appVars, geom, input, aborted>>

SpecCalc == InitCalc /\ [][Evaluate]_vars

(***************************************************************************)
(* The evaluator's geometry alone: get_height on one grid shape, and       *)
(* write_matrix against write_matrix_section on the sections of one        *)
(* partition of the rows.  The grids written here keep every cell.         *)
(***************************************************************************)
\* Matrix::new(w, h), every cell kept
FullMatrix(w, h) ==
    [width |-> w, height |-> h,
     cells |-> [p \in (0 .. w - 1) \X (0 .. h - 1) |-> 0]]

\* the ways to cut h rows into contiguous sections: the sequences of section heights
RECURSIVE RowPartitions(_)
RowPartitions(h) ==
    IF h = 0 THEN {<<>>}
    ELSE UNION {{<<first>> \o rest : rest \in RowPartitions(h - first)} : first \in 1 .. h}

\* full_matrix_offset of section k: the rows of the sections before it
RECURSIVE SectionOffset(_, _)
SectionOffset(heights, k) ==
    IF k = 1 THEN 0 ELSE SectionOffset(heights, k - 1) + heights[k - 1]

GridShapes == ((1 .. MaxGrid) \X (1 .. MaxGrid)) \cup SizeInputs

ViewportWidths == {FIX \div 2, FIX, DEFAULT_MANDELBROT_WIDTH}

ElementRatios == {CHARACTER_ASPECT_RATIO, FIX, 2 * FIX}

ViewportCenters == {<<0, 0>>, <<-FIX \div 2, FIX \div 4>>}

ViewportRotations == {0, 90}

GeomInputs(shape) ==
    [phase : {"input"}, matrix_width : {shape[1]}, matrix_height : {shape[2]},
     width : ViewportWidths, element_ar : ElementRatios, center : ViewportCenters,
     rotation : ViewportRotations, fractal_type : {"Mandelbrot", "Julia"},
     heights : IF shape[2] <= MaxGrid THEN RowPartitions(shape[2]) ELSE {<<shape[2]>>},
     height : {-1}, whole : {<<>>}, sections : {<<>>}]

InitGeom ==
    /\ views = <<NewView(INITIAL_VIEW_WIDTH, INITIAL_VIEW_HEIGHT,
                         new_mandelbrot_with_defaults(CHARACTER_ASPECT_RATIO)),
                 NewView(INITIAL_VIEW_WIDTH, INITIAL_VIEW_HEIGHT,
                         new_julia(DefaultJuliaCoord, CHARACTER_ASPECT_RATIO))>>
    /\ index = 0
    /\ view_width = INITIAL_VIEW_WIDTH
    /\ view_height = INITIAL_VIEW_HEIGHT
    /\ interview_animator = NewAnimator(FIX, AnimNone)
    /\ interview_matrix = NewMatrix(INITIAL_VIEW_WIDTH, INITIAL_VIEW_HEIGHT)
    /\ interview_last_index = 0
    /\ help_anim = NewAnimator(FIX, AnimNone)
    /\ hist = <<>>
    /\ updates_since_switch = 0
    /\ calc = CalcIdle
    /\ geom \in UNION {GeomInputs(shape) : shape \in GridShapes}
    /\ input = InputIdle
    /\ aborted = FALSE

\* the FractalSpecs of the harness: the iteration cap is MaxIter
GeomSpecs ==
    [(IF geom.fractal_type = "Mandelbrot"
      THEN new_mandelbrot_with_defaults(geom.element_ar)
      ELSE new_julia(DefaultJuliaCoord, geom.element_ar)) EXCEPT !.max_val = MaxIter]

\* FractalCalc::get_height on the harness's shape and width
MeasureHeight ==
    /\ geom.phase = "input"
    /\ geom' = [geom EXCEPT !.phase = "measured",
                            !.height = get_height(GeomSpecs, geom.matrix_width,
                                                  geom.matrix_height, geom.width)]
    /\ UNCHANGED <<appVars, calc, input, aborted>>

\* write_matrix on the whole grid, and write_matrix_section on each section of the
\* partition with its offset and the full height
WriteSections ==
    /\ geom.phase = "measured"
    /\ geom.matrix_width <= MaxGrid
    /\ geom.matrix_height <= MaxGrid
    /\ geom' = [geom EXCEPT
            !.phase = "written",
            !.whole = write_matrix(GeomSpecs, geom.center, geom.width, geom.rotation,
                                   FullMatrix(geom.matrix_width, geom.matrix_height)),
            !.sections = [k \in 1 .. Len(geom.heights) |->
                write_matrix_section(GeomSpecs, geom.center, geom.width, geom.rotation,
                                     FullMatrix(geom.matrix_width, geom.heights[k]),
                                     SectionOffset(geom.heights, k), geom.matrix_height)]]
    /\ UNCHANGED <<appVars, calc, input, aborted>>

NextGeom ==
    \/ MeasureHeight
    \/ WriteSections

SpecGeom == InitGeom /\ [][NextGeom]_vars

(***************************************************************************)
(* The zoom commands and the frame clock.  The exploration keeps the scale *)
(* velocity within MaxZoomVelocity and the width within MaxWidth, and runs *)
(* MaxFrames frames.                                                       *)
(***************************************************************************)
ZoomInRange ==
    /\ updates_since_switch <= MaxFrames
    /\ \A i \in DOMAIN views :
          /\ views[i].width_animator.value <= MaxWidth
          /\ views[i].width_animator.anim.type = "ScaleVelocity" =>
                Abs(views[i].width_animator.anim.scale_velocity) <= MaxZoomVelocity

NextZoom ==
    /\ \/ \E m \in ZoomInputs : Zoom(m)
       \/ \E m \in ZoomContinuousInputs : ZoomContinuous(m)
       \/ Update
    /\ ZoomInRange'

SpecZoom == Init /\ [][NextZoom]_vars

(***************************************************************************)
(* The motion commands, the switch and the frame clock.  The exploration   *)
(* keeps every view's centre and jump target within MaxPos of the origin,  *)
(* its width within MaxWidth and its rotation within MaxAngle, gives one    *)
(* zoom and one turn at a time, and has every view at rest from frame      *)
(* MaxFrames of the first crossfade on.                                    *)
(***************************************************************************)
AtRest(v) ==
    /\ v.position_animator.anim.type = "None"
    /\ v.width_animator.anim.type = "None"
    /\ v.rotation_animator.anim.type = "None"
    /\ ~v.coord_anim

MotionInRange ==
    \A i \in DOMAIN views :
        /\ AtRest(views[i]) \/ (updates_since_switch <= MaxFrames /\ Len(hist) <= 1)
        /\ InRange(views[i].position_animator.value)
        /\ views[i].position_animator.anim.type = "Target" =>
              InRange(views[i].position_animator.anim.target)
        /\ views[i].position_animator.anim.type = "VelocityWithRotation" =>
              InRange(views[i].position_animator.anim.velocity)
        /\ views[i].width_animator.value <= MaxWidth
        /\ views[i].width_animator.anim.type = "ScaleVelocity" =>
              Abs(views[i].width_animator.anim.scale_velocity) <= ZOOM_INCREMENT
        /\ Abs(views[i].rotation_animator.value) <= MaxAngle
        /\ views[i].rotation_animator.anim.type = "Velocity" =>
              Abs(views[i].rotation_animator.anim.velocity)
                 <= ROTATIONAL_VELOCITY_INCREMENT

NextMotion ==
    /\ \/ ChangeFractalSet
       \/ Stop
       \/ \E m \in PanInputs : PositionVelocity(m[1], m[2])
       \/ \E i \in CoordInputs : Coord(i)
       \/ \E m \in ZoomInputs : Zoom(m)
       \/ \E m \in RotationInputs : RotationalVelocity(m)
       \/ Update
    /\ MotionInRange'

SpecMotion == Init /\ [][NextMotion]_vars

(***************************************************************************)
(* Resizing, a collapsed terminal included: a process that has aborted     *)
(* takes no further step.                                                  *)
(***************************************************************************)
NextSize ==
    /\ ~aborted
    /\ \/ \E s \in ResizeInputs : Size(s[1], s[2])
       \/ ChangeFractalSet
       \/ Update
       \/ Calculate
       \/ Draw

SpecSize == Init /\ [][NextSize]_vars

(***************************************************************************)
(* A Target animator of type f64, built as the help dialog's is, from      *)
(* start values, targets, coefficients and epsilons of bounded sets, and   *)
(* then advanced by update() and re-aimed by the Help command.             *)
(***************************************************************************)
EaseStarts == {-(2 * FIX) - 50, 0, 37, FIX, 3 * FIX}

EaseTargets == {0, FIX}

EaseCoefficients == {20, 50, FIX}

EaseEpsilons == {1, 10}

InitEase ==
    /\ views = <<NewView(INITIAL_VIEW_WIDTH, INITIAL_VIEW_HEIGHT,
                         new_mandelbrot_with_defaults(CHARACTER_ASPECT_RATIO)),
                 NewView(INITIAL_VIEW_WIDTH, INITIAL_VIEW_HEIGHT,
                         new_julia(DefaultJuliaCoord, CHARACTER_ASPECT_RATIO))>>
    /\ index = 0
    /\ view_width = INITIAL_VIEW_WIDTH
    /\ view_height = INITIAL_VIEW_HEIGHT
    /\ interview_animator = NewAnimator(FIX, AnimNone)
    /\ interview_matrix = NewMatrix(INITIAL_VIEW_WIDTH, INITIAL_VIEW_HEIGHT)
    /\ interview_last_index = 0
    /\ \E v \in EaseStarts, t \in EaseTargets, c \in EaseCoefficients,
          e \in EaseEpsilons : help_anim = NewAnimator(v, AnimTarget(t, c, e))
    /\ hist = <<>>
    /\ updates_since_switch = 0
    /\ calc = CalcIdle
    /\ geom = GeomIdle
    /\ input = InputIdle
    /\ aborted = FALSE

NextEase ==
    \/ Help
    \/ Update

SpecEase == InitEase /\ [][NextEase]_vars

(***************************************************************************)
(* Panning with the four arrow keys over a view that is at rest, panning,  *)
(* easing to a clicked point or to a preset.                               *)
(***************************************************************************)
ArrowInputs == {<<-FIX, 0>>, <<FIX, 0>>, <<0, -FIX>>, <<0, FIX>>}

NextPan ==
    /\ \/ \E m \in ArrowInputs : PositionVelocity(m[1], m[2])
       \/ \E c \in TweenInputs : PositionTween(c[1], c[2])
       \/ \E i \in CoordInputs : Coord(i)
       \/ Stop
       \/ Update
    /\ MotionInRange'

SpecPan == Init /\ [][NextPan]_vars

(***************************************************************************)
(* The input thread of launch_thread and the frame driver's read of the    *)
(* command slot they share under a mutex. Each action is one critical      *)
(* section or one return of poll_event.                                    *)
(***************************************************************************)
\* rustbox.width() and rustbox.height() at thread start
TerminalSize == <<40, 12>>

\* the events poll_event returns: the keys f, space and Esc, a key with no
\* command, and a resize
EventInputs == {"f", "space", "esc", "other", "resize"}

\* Command::from_rustbox_event
from_rustbox_event(event) ==
    CASE event = "f" -> <<"ChangeFractalSet">>
      [] event = "space" -> <<"Stop">>
      [] event = "esc" -> <<"Quit">>
      [] event = "resize" -> <<"Size", 80, 24>>
      [] OTHER -> <<"None">>

\* the slot after the thread's *locked_command = command, with the record of what
\* the assignment overwrote
SlotWritten(command) ==
    [input EXCEPT !.command = command,
                  !.unread = command # <<"None">>,
                  !.lost = IF input.unread THEN Append(@, input.command) ELSE @]

\* thread::spawn
LaunchThread ==
    /\ input.thread = "unlaunched"
    /\ input' = [input EXCEPT !.thread = "starting"]
    /\ UNCHANGED <<appVars, calc, geom, aborted>>

\* the thread's first critical section: Command::Size(width, height)
WriteInitialSize ==
    /\ input.thread = "starting"
    /\ input' = [SlotWritten(<<"Size", TerminalSize[1], TerminalSize[2]>>)
                    EXCEPT !.thread = "polling"]
    /\ UNCHANGED <<appVars, calc, geom, aborted>>

\* rustbox.poll_event returns
PollEvent(event) ==
    /\ input.thread = "polling"
    /\ input.polled < MaxEvents
    /\ input' = [input EXCEPT !.thread = "returned", !.event = event,
                              !.polled = @ + 1]
    /\ UNCHANGED <<appVars, calc, geom, aborted>>

\* the loop's critical section: the event's command goes into the slot, and Quit
\* ends the loop
WriteCommand ==
    /\ input.thread = "returned"
    /\ input' = [SlotWritten(from_rustbox_event(input.event))
                    EXCEPT !.thread = IF from_rustbox_event(input.event) = <<"Quit">>
                                      THEN "finished" ELSE "polling",
                           !.event = "none"]
    /\ UNCHANGED <<appVars, calc, geom, aborted>>

\* the frame driver's critical section, once per frame: it takes the command out
\* of the slot and leaves Command::None
ReadSlot ==
    /\ input.thread # "unlaunched"
    /\ input' = [input EXCEPT !.command = <<"None">>,
                              !.unread = FALSE,
                              !.delivered = IF input.command # <<"None">>
                                            THEN Append(@, input.command) ELSE @]
    /\ UNCHANGED <<appVars, calc, geom, aborted>>

NextInput ==
    \/ LaunchThread
    \/ WriteInitialSize
    \/ \E event \in EventInputs : PollEvent(event)
    \/ WriteCommand
    \/ ReadSlot

SpecInput == Init /\ [][NextInput]_vars

(***************************************************************************)
(* The properties.                                                         *)
(***************************************************************************)
CrossfadeInactive == interview_animator.anim.type = "None"

\* C1: a switch, from any state, sets interview_last_index to the old views.index,
\* sets views.index to (old index + 1) mod the number of views, and leaves the
\* crossfade animator at value 0 in Velocity mode with velocity 1/20, friction 1.0
\* and no epsilon, whatever the animator held before.
SwitchSetsIndicesAndRamp ==
    [][ChangeFractalSet =>
        /\ interview_last_index' = index
        /\ index' = (index + 1) % NumViews
        /\ interview_animator'.value = 0
        /\ interview_animator'.anim =
              [type |-> "Velocity", velocity |-> FIX \div 20, friction |-> FIX,
               epsilon |-> NoEpsilon]]_vars

\* a second switch has just interrupted a crossfade: the ramp restarts from 0
SwitchedTwiceJustNow ==
    /\ Len(hist) = 2
    /\ updates_since_switch = 0
    /\ interview_last_index = hist[2]
    /\ interview_animator.value = 0
    /\ ~CrossfadeInactive

\* C2: in every reachable state the view list is non-empty and views.index and
\* interview_last_index are valid indices into it.
IndicesValid ==
    /\ NumViews >= 1
    /\ index \in 0 .. NumViews - 1
    /\ interview_last_index \in 0 .. NumViews - 1

\* the index has wrapped from the last view back to the first
IndexWrapped ==
    /\ hist # <<>>
    /\ interview_last_index = NumViews - 1
    /\ index = 0

\* the construction-time state of the crossfade animator: 1.0 and None, until the
\* first update() or switch
CrossfadeFresh ==
    /\ hist = <<>>
    /\ updates_since_switch = 0
    /\ interview_animator.value = FIX

\* C3 as stated: whenever the crossfade animator's mode is None its value is 0, and
\* whenever its mode is not None its value lies in [0, 1).
CrossfadeZeroWhenInactive ==
    /\ CrossfadeInactive => interview_animator.value = 0
    /\ ~CrossfadeInactive =>
          interview_animator.value >= 0 /\ interview_animator.value < FIX

\* C3, amended: whenever the mode is None the value is 0, except from construction
\* to the first update() or switch, where it is 1.0; whenever the mode is not None
\* the value lies in [0, 1), so update() never leaves a value >= 1.0 behind.
CrossfadeSelfTerminates ==
    /\ CrossfadeInactive => interview_animator.value = 0 \/ CrossfadeFresh
    /\ ~CrossfadeInactive =>
          interview_animator.value >= 0 /\ interview_animator.value < FIX

\* the ramp has run to 1.0 and update() has forced it to None and 0
RampForcedOff ==
    /\ hist # <<>>
    /\ updates_since_switch * CrossfadeRate = FIX
    /\ CrossfadeInactive
    /\ interview_animator.value = 0

\* C4: for any list length and starting index, after two switches in sequence, with
\* any number of update() calls between and after them, views.index is the index
\* before the first of the two plus 2 mod the list length; and once the update()
\* calls after the second switch amount to a whole ramp the crossfade is inactive.
TwoSwitchesAdvanceByTwo ==
    Len(hist) = 2 =>
        /\ index = (hist[1] + 2) % NumViews
        /\ updates_since_switch * CrossfadeRate >= FIX => CrossfadeInactive

\* two switches from the last of three views, and the second ramp has completed
TwoSwitchesDone ==
    /\ NumViews = 3
    /\ Len(hist) = 2
    /\ hist[1] = 2
    /\ index = 1
    /\ updates_since_switch * CrossfadeRate >= FIX
    /\ CrossfadeInactive

PreviousMatrix == views[interview_last_index + 1].matrix

\* the blend of draw(), written out cell by cell: the previous view's cell plus the
\* crossfade value's share of the way to the current view's cell
ExpectedComposite ==
    IF CrossfadeInactive THEN views[index + 1].matrix
    ELSE [width |-> interview_matrix.width, height |-> interview_matrix.height,
          cells |-> [p \in DOMAIN interview_matrix.cells |->
                        PreviousMatrix.cells[p]
                        + ((views[index + 1].matrix.cells[p] - PreviousMatrix.cells[p])
                           * interview_animator.value) \div FIX]]

\* C5: what draw() hands on is the current view's matrix unchanged when the crossfade
\* is inactive, and otherwise the cell-by-cell linear interpolation from the matrix
\* of the view at interview_last_index to that of the view at views.index by the
\* crossfade value, written into interview_matrix; draw() leaves the views alone.
DrawComposesCrossfade ==
    /\ [](CompositeOutput = ExpectedComposite)
    /\ [][Draw => /\ views' = views
                  /\ ~CrossfadeInactive => interview_matrix' = ExpectedComposite]_vars

\* draw() has written a blend that lies strictly between the two views' cells
DrewMidBlend ==
    /\ ~CrossfadeInactive
    /\ interview_animator.value > 0
    /\ interview_matrix = ExpectedComposite
    /\ \E p \in DOMAIN interview_matrix.cells :
          \/ /\ PreviousMatrix.cells[p] < interview_matrix.cells[p]
             /\ interview_matrix.cells[p] < views[index + 1].matrix.cells[p]
          \/ /\ PreviousMatrix.cells[p] > interview_matrix.cells[p]
             /\ interview_matrix.cells[p] > views[index + 1].matrix.cells[p]

Resize == \E s \in SizeInputs : set_size(s[1], s[2])

OtherViewsUnchanged ==
    \A i \in DOMAIN views : i # index + 1 => views'[i] = views[i]

FrameStep == Update \/ Calculate \/ Draw

\* C6 as stated: while the crossfade is active the previous view's matrix keeps its
\* contents under update(), calculate(), draw() and resize.
PreviousMatrixFrozen ==
    [][\/ views'[interview_last_index + 1].matrix = PreviousMatrix
       \/ ~(~CrossfadeInactive /\ (FrameStep \/ Resize))]_vars

\* C6, amended: while the crossfade is active the previous view's matrix keeps its
\* contents under update(), calculate() and draw(), while a resize constructs every
\* view's matrix anew; update() and calculate() change the current view only and
\* leave every other view's animators and matrix unchanged.
PreviousMatrixFrozenUntilResize ==
    /\ [][\/ /\ OtherViewsUnchanged
             /\ ~CrossfadeInactive => views'[interview_last_index + 1].matrix = PreviousMatrix
          \/ ~FrameStep]_vars
    /\ [][\/ views'[interview_last_index + 1].matrix = NewMatrix(view_width', view_height')
          \/ ~(~CrossfadeInactive /\ Resize)]_vars

\* mid-crossfade the previous view's matrix is a computed one that a recompute would
\* change, and the current view has been advanced and recomputed
PreviousMatrixStale ==
    /\ ~CrossfadeInactive
    /\ updates_since_switch > 0
    /\ PreviousMatrix # NewMatrix(view_width, view_height)
    /\ PreviousMatrix # ViewCalculate(views[interview_last_index + 1]).matrix
    /\ views[index + 1].matrix # NewMatrix(view_width, view_height)

SameShape(m, w, h) ==
    /\ m.width = w
    /\ m.height = h
    /\ DOMAIN m.cells = SampleCells(w, h)

\* C7: in every reachable state every view's matrix and the scratch matrix have the
\* recorded shape view_width x view_height, so after a resize to w x h they are all
\* w x h and draw() blends three matrices of one shape.
ShapesAgree ==
    /\ \A i \in DOMAIN views : SameShape(views[i].matrix, view_width, view_height)
    /\ SameShape(interview_matrix, view_width, view_height)

\* a resize has replaced computed matrices mid-crossfade
ResizedMidCrossfade ==
    /\ ~CrossfadeInactive
    /\ view_width = 40
    /\ view_height = 12
    /\ \A i \in DOMAIN views : views[i].matrix = NewMatrix(40, 12)
    /\ \E i \in DOMAIN views : views[i].position_animator.value # <<0, 0>>

EvaluatedWithSeedZero == calc.phase = "done" /\ calc.cr = 0 /\ calc.ci = 0

\* C8 as stated: Julia rule with seed 0+0i: for every max_iterations the value at
\* (0,0) is max_iterations and the value at (3,0) is 1.
JuliaSeedZeroEscapesAtOne ==
    EvaluatedWithSeedZero =>
        /\ (calc.x = 0 /\ calc.y = 0) => calc.julia = calc.max_val
        /\ (calc.x = 3 * FIX /\ calc.y = 0) => calc.julia = 1

\* C8, amended: Julia rule with seed 0+0i: for every max_iterations the value at
\* (0,0) is max_iterations, and (3,0) is found escaped by the first test, before any
\* iteration: its value is 0.
JuliaSeedZeroEscapesAtZero ==
    EvaluatedWithSeedZero =>
        /\ (calc.x = 0 /\ calc.y = 0) => calc.julia = calc.max_val
        /\ (calc.x = 3 * FIX /\ calc.y = 0) => calc.julia = 0

\* the Julia rule with seed 0 has been evaluated at (3,0) under a cap above 1
JuliaEvaluatedAtThree ==
    /\ EvaluatedWithSeedZero
    /\ calc.x = 3 * FIX
    /\ calc.y = 0
    /\ calc.max_val >= 2
    /\ calc.julia = 0

\* the orbit of the reference loop: z_0 = 0, z_k = z_(k-1)^2 + c, followed up to
\* its first point with |z| >= 2.0 and held there
RECURSIVE RefOrbit(_, _, _)
RefOrbit(cr, ci, k) ==
    IF k = 0 THEN <<0, 0>>
    ELSE LET z == RefOrbit(cr, ci, k - 1)
         IN  IF z[1] * z[1] + z[2] * z[2] >= 4 * FIX * FIX THEN z
             ELSE <<(z[1] * z[1]) \div FIX - (z[2] * z[2]) \div FIX + cr,
                    2 * ((z[1] * z[2]) \div FIX) + ci>>

\* the count of the reference loop: the first k with |z_k| >= 2.0, or the cap
RefCount(cr, ci, max_val) ==
    LET out == {k \in 0 .. max_val :
                    LET z == RefOrbit(cr, ci, k)
                    IN  z[1] * z[1] + z[2] * z[2] >= 4 * FIX * FIX}
    IN  IF out = {} THEN max_val ELSE CHOOSE k \in out : \A j \in out : k <= j

\* C9: Mandelbrot rule: for every max_iterations the value at (0,0) is
\* max_iterations, the value at (2,2) is at most 1, and every value is the count of
\* the reference loop z = 0, z = z*z + c until |z| >= 2.0 or the cap.
MandelbrotMatchesReference ==
    calc.phase = "done" =>
        /\ (calc.x = 0 /\ calc.y = 0) => calc.mandelbrot = calc.max_val
        /\ (calc.x = 2 * FIX /\ calc.y = 2 * FIX) => calc.mandelbrot <= 1
        /\ calc.mandelbrot = RefCount(calc.x, calc.y, calc.max_val)

\* the Mandelbrot rule has been evaluated at (2,2) under a cap above 1
MandelbrotEvaluatedAtTwoTwo ==
    /\ calc.phase = "done"
    /\ calc.x = 2 * FIX
    /\ calc.y = 2 * FIX
    /\ calc.max_val >= 2
    /\ calc.mandelbrot = 1

\* C10: for every complex c and every max_iterations the Julia value with seed c at
\* (0,0) equals the Mandelbrot value at c.
JuliaAtOriginMatchesMandelbrot ==
    (calc.phase = "done" /\ calc.x = 0 /\ calc.y = 0) =>
        calc.julia = calc.mandelbrot_at_c

\* C11 as stated: for every grid shape, viewport width and element aspect ratio,
\* get_height is width * (grid_width / grid_height) * (1 / element_aspect_ratio),
\* to within the rounding of the fixed-point arithmetic (one part in fifty and two
\* units).
HeightIsWidthTimesShape ==
    geom.phase # "input" /\ geom.phase # "idle" =>
        Abs(geom.height * geom.matrix_height * geom.element_ar
            - geom.width * geom.matrix_width * FIX) * 50
        <= geom.width * geom.matrix_width * FIX
           + 100 * geom.matrix_height * geom.element_ar

\* C11, amended: for every grid shape, viewport width and element aspect ratio,
\* get_height is width * (grid_height / grid_width) * (1 / element_aspect_ratio): the
\* width times the inverse of the grid's aspect ratio, to within the rounding of the
\* fixed-point arithmetic (one part in fifty and two units).
HeightIsWidthOverShape ==
    geom.phase # "input" /\ geom.phase # "idle" =>
        Abs(geom.height * geom.matrix_width * geom.element_ar
            - geom.width * geom.matrix_height * FIX) * 50
        <= geom.width * geom.matrix_height * FIX
           + 100 * geom.matrix_width * geom.element_ar

\* the height of the default viewport on the 80 x 24 grid has been measured: 3.0
MeasuredTerminalShape ==
    /\ geom.phase = "measured"
    /\ geom.matrix_width = INITIAL_VIEW_WIDTH
    /\ geom.matrix_height = INITIAL_VIEW_HEIGHT
    /\ geom.width = DEFAULT_MANDELBROT_WIDTH
    /\ geom.element_ar = CHARACTER_ASPECT_RATIO
    /\ geom.height = 3 * FIX

\* the section that holds a row of the whole grid
SectionOf(heights, row) ==
    CHOOSE k \in 1 .. Len(heights) :
        /\ SectionOffset(heights, k) <= row
        /\ row < SectionOffset(heights, k) + heights[k]

\* the sections put back together: cell (x, row) is cell (x, row - offset) of the
\* section that holds the row
AssembledSections ==
    [p \in (0 .. geom.matrix_width - 1) \X (0 .. geom.matrix_height - 1) |->
        LET k == SectionOf(geom.heights, p[2])
        IN  geom.sections[k].cells[<<p[1], p[2] - SectionOffset(geom.heights, k)>>]]

\* center + slope_x * (x - grid_width / 2) + slope_y * (row - grid_height / 2)
LatticePoint(x, row) ==
    LET height_span == get_height(GeomSpecs, geom.matrix_width, geom.matrix_height,
                                  geom.width)
        slope_x == Rotate(<<Div(geom.width, geom.matrix_width * FIX), 0>>,
                          geom.rotation)
        slope_y == Rotate(<<0, Div(height_span, geom.matrix_height * FIX)>>,
                          geom.rotation)
        dx == x * FIX - Div(geom.matrix_width * FIX, 2 * FIX)
        dy == row * FIX - Div(geom.matrix_height * FIX, 2 * FIX)
    IN  VAdd(geom.center, VAdd(VScale(slope_x, dx), VScale(slope_y, dy)))

\* C16: for every partition of the rows into contiguous sections, the call of
\* write_matrix_section on a section with its offset and the full height evaluates,
\* for cell (x, y), the point center + slope_x * (x - grid_width / 2) + slope_y *
\* ((offset + y) - grid_height / 2); the sections put together equal the grid of one
\* write_matrix call cell for cell; and a section call writes the cells of its own
\* rows only.
SectionsComposeToWhole ==
    geom.phase = "written" =>
        /\ AssembledSections = geom.whole.cells
        /\ \A k \in 1 .. Len(geom.heights) :
              /\ geom.sections[k].height = geom.heights[k]
              /\ DOMAIN geom.sections[k].cells =
                    (0 .. geom.matrix_width - 1) \X (0 .. geom.heights[k] - 1)
              /\ \A p \in DOMAIN geom.sections[k].cells :
                    LET offset == SectionOffset(geom.heights, k)
                    IN  /\ SectionPoint(GeomSpecs, geom.center, geom.width,
                                        geom.rotation, geom.matrix_width, offset,
                                        geom.matrix_height, p[1], p[2])
                           = LatticePoint(p[1], offset + p[2])
                        /\ geom.sections[k].cells[p] =
                              get_value(GeomSpecs, LatticePoint(p[1], offset + p[2])[1],
                                        LatticePoint(p[1], offset + p[2])[2])

\* a grid has been written in three sections of one row each, and its rows differ
WroteThreeSections ==
    /\ geom.phase = "written"
    /\ geom.heights = <<1, 1, 1>>
    /\ geom.matrix_width = 3
    /\ \E x \in 0 .. 2 : geom.whole.cells[<<x, 0>>] # geom.whole.cells[<<x, 1>>]
    /\ \E x \in 0 .. 2 : geom.whole.cells[<<x, 1>>] # geom.whole.cells[<<x, 2>>]
    /\ AssembledSections = geom.whole.cells

\* the evaluator's viewport width and the divisor of get_zoom
CurrentWidth == Current.width_animator.value

\* C12: under any sequence of Zoom and ZoomContinuous commands and update() calls the
\* current view's width stays strictly positive, so write_matrix and the zoom ratio
\* default_width / width are never computed with a width <= 0.
WidthStaysPositive == CurrentWidth > 0

\* the view that was current before the last switch
Previous == views[interview_last_index + 1]

\* C13: Stop and ChangeFractalSet leave the view that was current when they arrived
\* with its position, width and rotation animators in mode None and its coordinate
\* animation off, and while the crossfade is running the view it fades from has no
\* active animator.
OutgoingViewIsStopped ==
    /\ [](~CrossfadeInactive => AtRest(Previous))
    /\ [][AtRest(views'[index + 1]) \/ ~(Stop \/ ChangeFractalSet)]_vars

\* in the middle of a crossfade the view faded from has moved on all three axes and
\* is at rest, while the view faded to is panning, zooming and turning
FadingFromMovedView ==
    /\ ~CrossfadeInactive
    /\ updates_since_switch > 0
    /\ Previous.position_animator.value # <<0, 0>>
    /\ Previous.width_animator.value # Current.width_animator.value
    /\ Previous.rotation_animator.value # 0
    /\ AtRest(Previous)
    /\ Current.position_animator.anim.type # "None"
    /\ Current.width_animator.anim.type # "None"
    /\ Current.rotation_animator.anim.type # "None"

TargetEasesAndSnaps ==
    [][\/ ~Update
       \/ help_anim.anim.type # "Target"
       \/ /\ Abs(help_anim.anim.target - help_anim'.value)
                <= Abs(help_anim.anim.target - help_anim.value)
          /\ help_anim'.anim.type = "None" => help_anim'.value = help_anim.anim.target
          /\ help_anim'.anim.type # "None" =>
                /\ help_anim'.anim = help_anim.anim
                /\ Abs(help_anim.anim.target - help_anim'.value)
                      >= help_anim.anim.epsilon]_vars

\* an animator aimed at 1.0 has eased for at least ten updates and snapped to its
\* target
HelpAnimatorSnapped ==
    /\ help_anim.anim.type = "None"
    /\ help_anim.value = FIX
    /\ updates_since_switch >= 10

\* the vector vel_increment * (xm, ym) of a PositionVelocity(xm, ym) command
PanIncrement(m) ==
    <<Mul(Mul(Current.width_animator.value, VELOCITY_RATIO_INCREMENT), m[1]),
      Mul(Mul(Current.width_animator.value, VELOCITY_RATIO_INCREMENT), m[2])>>

\* C17: a PositionVelocity command leaves the position value as it was; on a position
\* animator in VelocityWithRotation mode it adds the increment to the velocity and
\* keeps the rotation and the friction; on one in any other mode (None, or a Target
\* in flight) it installs VelocityWithRotation with velocity = increment, rotation 0.
PanFollowsOnePolicy ==
    [][\A m \in ArrowInputs :
          \/ ~PositionVelocity(m[1], m[2])
          \/ LET a == Current.position_animator
                 b == views'[index + 1].position_animator
             IN  /\ b.value = a.value
                 /\ b.anim.type = "VelocityWithRotation"
                 /\ a.anim.type = "VelocityWithRotation" =>
                       /\ b.anim.velocity = VAdd(a.anim.velocity, PanIncrement(m))
                       /\ b.anim.rotation = a.anim.rotation
                       /\ b.anim.friction = a.anim.friction
                 /\ a.anim.type # "VelocityWithRotation" =>
                       /\ b.anim.velocity = PanIncrement(m)
                       /\ b.anim.rotation = 0]_vars

\* a view that has moved carries a pan velocity on both axes: one arrow key's
\* increment added to another's
PannedOnBothAxes ==
    /\ Current.position_animator.anim.type = "VelocityWithRotation"
    /\ Current.position_animator.anim.velocity[1] # 0
    /\ Current.position_animator.anim.velocity[2] # 0
    /\ Current.position_animator.value # <<0, 0>>
    /\ updates_since_switch > 0

\* C18: after a switch the crossfade animator is in mode None with value 0 by the
\* 20th update() call that follows it, and from a state where it is in mode None
\* with value 0 every step but a switch (update, calculate, draw, a pan, a stop, a
\* resize) leaves it so.
CrossfadeEndsByTwentiethUpdate ==
    /\ [](hist # <<>> /\ updates_since_switch >= 20 =>
             CrossfadeInactive /\ interview_animator.value = 0)
    /\ [][\/ ChangeFractalSet
          \/ ~(CrossfadeInactive /\ interview_animator.value = 0)
          \/ (interview_animator'.anim.type = "None" /\ interview_animator'.value = 0)]_vars

\* more than 20 updates after a switch the terminal has been resized and the view
\* recalculated, and the crossfade is off
LongAfterSwitch ==
    /\ hist # <<>>
    /\ updates_since_switch = MaxUpdates
    /\ view_width = 40
    /\ interview_matrix.width = 40
    /\ CrossfadeInactive
    /\ interview_animator.value = 0

\* the Mandelbrot loop on the evaluated point after max_val iterations and one more
\* test of its condition
MandelbrotLoopEnd ==
    MandelbrotRun([z |-> <<0, 0>>, c |-> <<calc.x, calc.y>>, val |-> 0,
                   exited |-> FALSE], calc.max_val + 1, calc.max_val)

\* the Julia loop on the evaluated point after max_val iterations and the fall
\* through to its last line
JuliaLoopEnd ==
    JuliaRun([z |-> <<calc.x, calc.y>>, c |-> <<calc.cr, calc.ci>>, val |-> 0,
              exited |-> FALSE], calc.max_val + 1, calc.max_val)

\* C19: for both fractal kinds, every point and every max_val from 0 up, get_value
\* returns a count in 0 ..= max_val, and the escape loop has ended after at most
\* max_val iterations, with that count.
ValuesWithinCap ==
    calc.phase = "done" =>
        /\ calc.mandelbrot \in 0 .. calc.max_val
        /\ calc.mandelbrot_at_c \in 0 .. calc.max_val
        /\ calc.julia \in 0 .. calc.max_val
        /\ MandelbrotLoopEnd.exited /\ MandelbrotLoopEnd.val = calc.mandelbrot
        /\ JuliaLoopEnd.exited /\ JuliaLoopEnd.val = calc.julia

\* at the largest cap a point of the Mandelbrot set has run to the cap while its
\* Julia orbit escaped on the way
CapReachedAndEscaped ==
    /\ calc.phase = "done"
    /\ calc.max_val = MaxIter
    /\ calc.mandelbrot = MaxIter
    /\ calc.julia > 0
    /\ calc.julia < MaxIter

\* C20: no command written to the slot, the initial Size among them, is overwritten
\* before the frame driver has read it, under every interleaving of the two threads.
NoCommandLost == input.lost = <<>>

====
